---- MODULE Spec2Model ----
(***************************************************************************)
(* Model of the marketing dashboard's data pipeline:                       *)
(*   scripts/data_processor.py   DataProcessor                             *)
(*   scripts/metrics_calculator.py   MetricsCalculator                     *)
(*   main.py   load_real_data, process_data, main                          *)
(*                                                                         *)
(* A data frame is a record [isNone, columns, rows]; rows is a sequence of *)
(* records, one field per column.  A number is a pair <<n, d>>: a reduced  *)
(* fraction n/d with d > 0, or one of the three non-finite floating point  *)
(* values <<0,0>> (NaN), <<1,0>> (+inf), <<-1,0>> (-inf).  Arithmetic      *)
(* follows IEEE-754 as numpy/pandas apply it (x/0 is +-inf, 0/0 is NaN,    *)
(* NaN propagates, column sums and means skip NaN), on exact fractions.    *)
(* A date is [iso |-> d] as read from a CSV file and [ts |-> d] once       *)
(* parsed, d being the day's ordinal.                                      *)
(***************************************************************************)
EXTENDS Integers, Sequences, FiniteSets, TLC

VARIABLES
    data,            \* the files of data/ as the running program found them
    run,             \* which program is running: "none", "processor", "dashboard"
    marketing_data,  \* DataProcessor.marketing_data
    business_data,   \* DataProcessor.business_data
    combined_data,   \* DataProcessor.combined_data
    result,          \* what the last call returned or raised
    marketing_df,    \* main: the marketing frame of the dashboard
    business_df,     \* main: the business frame of the dashboard
    combined_df,     \* main: the combined frame of the dashboard
    view             \* main: what the last run of the page rendered

vars == <<data, run, marketing_data, business_data, combined_data, result,
          marketing_df, business_df, combined_df, view>>
processor_vars == <<marketing_data, business_data, combined_data, result>>
dashboard_vars == <<marketing_df, business_df, combined_df, view>>

(***************************************************************************)
(* Bounds of the explored inputs.                                          *)
(***************************************************************************)
MaxVal == 1
MaxDate == 3

(***************************************************************************)
(* Floating point numbers.                                                 *)
(***************************************************************************)
NaN == <<0, 0>>
PosInf == <<1, 0>>
NegInf == <<-1, 0>>
Num(n) == <<n, 1>>
Zero == Num(0)

Abs(n) == IF n < 0 THEN -n ELSE n
Sign(n) == IF n > 0 THEN 1 ELSE IF n < 0 THEN -1 ELSE 0

RECURSIVE GCD(_, _)
GCD(a, b) == IF b = 0 THEN a ELSE GCD(b, a % b)

Frac(n, d) ==
    IF d = 0 THEN <<Sign(n), 0>>
    ELSE LET g == GCD(Abs(n), Abs(d))
             s == IF d < 0 THEN -1 ELSE 1
         IN <<(s * n) \div g, (s * d) \div g>>

IsNaN(a) == a = NaN
IsInf(a) == a[2] = 0 /\ a[1] # 0
IsFinite(a) == a[2] # 0

FGt0(a) == a[1] > 0

FAdd(a, b) ==
    IF IsNaN(a) \/ IsNaN(b) THEN NaN
    ELSE IF IsInf(a) /\ IsInf(b) THEN (IF a = b THEN a ELSE NaN)
    ELSE IF IsInf(a) THEN a
    ELSE IF IsInf(b) THEN b
    ELSE Frac(a[1] * b[2] + b[1] * a[2], a[2] * b[2])

FMul(a, b) ==
    IF IsNaN(a) \/ IsNaN(b) THEN NaN
    ELSE IF IsInf(a) \/ IsInf(b) THEN Frac(Sign(a[1]) * Sign(b[1]), 0)
    ELSE Frac(a[1] * b[1], a[2] * b[2])

FDiv(a, b) ==
    IF IsNaN(a) \/ IsNaN(b) THEN NaN
    ELSE IF IsInf(a) THEN (IF IsInf(b) THEN NaN
                           ELSE <<a[1] * (IF b[1] < 0 THEN -1 ELSE 1), 0>>)
    ELSE IF IsInf(b) THEN Zero
    ELSE Frac(a[1] * b[2], a[2] * b[1])

FSub(a, b) == FAdd(a, FMul(Num(-1), b))

\* numpy's round(2): to the nearest hundredth, ties to the even hundredth
Round2(a) ==
    IF ~IsFinite(a) THEN a
    ELSE LET q == (100 * a[1]) \div a[2]
             r == (100 * a[1]) % a[2]
             h == IF 2 * r < a[2] THEN q
                  ELSE IF 2 * r > a[2] THEN q + 1
                  ELSE IF q % 2 = 0 THEN q ELSE q + 1
         IN Frac(h, 100)

(***************************************************************************)
(* Series and frames.                                                      *)
(***************************************************************************)
None == [isNone |-> TRUE, columns |-> {}, rows |-> <<>>]
DataFrame(cols, rs) == [isNone |-> FALSE, columns |-> cols, rows |-> rs]

Col(rows, c) == [i \in 1..Len(rows) |-> rows[i][c]]

\* Series.sum(): NaN entries are skipped, the empty sum is 0
RECURSIVE SeriesSum(_)
SeriesSum(s) ==
    IF s = <<>> THEN Zero
    ELSE IF IsNaN(Head(s)) THEN SeriesSum(Tail(s))
    ELSE FAdd(Head(s), SeriesSum(Tail(s)))

NotNaN(a) == ~IsNaN(a)

\* Series.count(): the number of entries that are present
SeriesCount(s) == Len(SelectSeq(s, NotNaN))

\* Series.mean(): NaN entries are skipped, the mean of nothing is NaN
SeriesMean(s) == FDiv(SeriesSum(s), Num(SeriesCount(s)))

\* fillna(v) on one value
FillNa(a, v) == IF IsNaN(a) THEN v ELSE a

\* a CSV cell of a numeric column that holds text instead of a number
Text == <<0, -1>>

NotCoerced(a) == a

\* pd.to_numeric(errors='coerce'): a cell that holds no number becomes NaN
ToNumeric(a) == IF a = Text THEN NaN ELSE a

\* pd.to_datetime: an ISO date string becomes a timestamp, a timestamp stays
ToDatetime(x) == IF "iso" \in DOMAIN x THEN [ts |-> x.iso] ELSE x

\* new or replaced columns of one row
WithCols(r, new) == new @@ r

UnguardedRatio(num, den) == FDiv(num, den)

\* np.where(den > 0, num / den [* 100], 0)
GuardedRatio(num, den) == IF FGt0(den) THEN FDiv(num, den) ELSE Zero
GuardedPct(num, den) == IF FGt0(den) THEN FMul(FDiv(num, den), Num(100)) ELSE Zero

\* ascending sequence of a finite set of integers
RECURSIVE SortedSeq(_)
SortedSeq(S) ==
    IF S = {} THEN <<>>
    ELSE LET m == CHOOSE x \in S : \A y \in S : x <= y
         IN <<m>> \o SortedSeq(S \ {m})

\* rows of a frame that satisfy a column test
RowsWhere(rows, c, v) == LET Test(r) == r[c] = v IN SelectSeq(rows, Test)

(***************************************************************************)
(* The input files.  The channel feeds are Facebook.csv, Google.csv and    *)
(* TikTok.csv; the three have the same header, the canonical one or the    *)
(* vendor's.  Columns no modelled step computes from (tactic, state,       *)
(* new_orders, cogs) are left out of the rows.                             *)
(***************************************************************************)
Channels == <<"Facebook", "Google", "TikTok">>
Campaigns == {"A", "B"}
Dates == 1..MaxDate
RawVals == {Num(0), Num(MaxVal), NaN}

MarketingColumns ==
    {"date", "campaign", "impressions", "clicks", "spend", "attributed_revenue"}
BusinessColumns ==
    {"date", "orders", "new_customers", "total_revenue", "gross_profit"}

\* a cell of a CSV file holds 0 or MaxVal or is blank; a row has at most one
\* blank
Blanks(cells) == Cardinality({i \in 1..Len(cells) : cells[i] = NaN})
FeedRows ==
    {r \in [date : {[iso |-> d] : d \in Dates}, campaign : Campaigns,
            impressions : RawVals, clicks : RawVals, spend : RawVals,
            attributed_revenue : RawVals] :
        Blanks(<<r.impressions, r.clicks, r.spend, r.attributed_revenue>>) <= 1}
BusinessRows ==
    {r \in [date : {[iso |-> d] : d \in Dates}, orders : RawVals,
            new_customers : RawVals, total_revenue : RawVals,
            gross_profit : RawVals] :
        Blanks(<<r.orders, r.new_customers, r.total_revenue, r.gross_profit>>) <= 1}

\* a row whose numeric cells all hold v
FeedRow(d, c, v) ==
    [date |-> [iso |-> d], campaign |-> c, impressions |-> v, clicks |-> v,
     spend |-> v, attributed_revenue |-> v]
BusinessRow(d, v) ==
    [date |-> [iso |-> d], orders |-> v, new_customers |-> v,
     total_revenue |-> v, gross_profit |-> v]

\* The three channel feeds are written as one sequence of <<feed, row>>.
\* The explored inputs vary one side at a time around fixed base feeds: one
\* arbitrary row (or none) is appended to a base feed on one side while the
\* other side is a base feed.  The business feed always has a row.
ChannelSet == {Channels[i] : i \in 1..Len(Channels)}
BaseMarketingFeeds == {<<>>, <<<<"Facebook", FeedRow(1, "A", Num(1))>>>>}
BaseBusinessFeeds == {<<BusinessRow(1, Num(1))>>}
MarketingFeeds ==
    {b \o f : b \in BaseMarketingFeeds,
              f \in {<<>>} \cup {<<t>> : t \in ChannelSet \X FeedRows}}
BusinessFeeds ==
    {b \o f : b \in BaseBusinessFeeds \cup {<<>>},
              f \in {<<>>} \cup {<<r>> : r \in BusinessRows}} \ {<<>>}
Inputs ==
    (MarketingFeeds \X BaseBusinessFeeds) \cup (BaseMarketingFeeds \X BusinessFeeds)

\* the vendor's column names, and the rows of a feed that uses them
VendorMarketingColumns ==
    {"date", "campaign", "impression", "clicks", "spend", "attributed revenue"}
VendorBusinessColumns ==
    {"date", "# of orders", "new customers", "total revenue", "gross profit"}
VendorFeedRow(d, c, v) ==
    ("impression" :> v) @@ ("attributed revenue" :> v)
    @@ [date |-> [iso |-> d], campaign |-> c, clicks |-> v, spend |-> v]
VendorBusinessRow(d, v) ==
    ("# of orders" :> v) @@ ("new customers" :> v) @@ ("total revenue" :> v)
    @@ ("gross profit" :> v) @@ [date |-> [iso |-> d]]

\* a campaign cell that is blank
Blank == "<blank>"

\* rows with one cell that holds text instead of a number, or a blank campaign
DirtyFeedRows ==
    {[FeedRow(1, "A", Num(MaxVal)) EXCEPT ![c] = Text] :
        c \in {"impressions", "clicks", "spend", "attributed_revenue"}}
    \cup {[FeedRow(1, "A", Num(MaxVal)) EXCEPT !.campaign = Blank]}
DirtyBusinessRows ==
    {[BusinessRow(1, Num(MaxVal)) EXCEPT ![c] = Text] :
        c \in {"orders", "new_customers", "total_revenue", "gross_profit"}}

\* The contents of data/: the header style and the rows of the four files.
CanonicalFiles ==
    {[header |-> "canonical", marketing |-> in[1], business |-> in[2]] : in \in Inputs}
VendorFiles ==
    {[header |-> "vendor", marketing |-> m,
      business |-> <<VendorBusinessRow(1, Num(MaxVal))>>] :
        m \in {<<>>, <<<<"Facebook", VendorFeedRow(1, "A", Num(MaxVal))>>,
                       <<"Google", VendorFeedRow(2, "B", Num(0))>>>>}}
DirtyFiles ==
    {[header |-> "canonical",
      marketing |-> <<<<"Facebook", FeedRow(1, "A", Num(MaxVal))>>, <<"Google", r>>>>,
      business |-> <<BusinessRow(1, Num(MaxVal))>>] : r \in DirtyFeedRows}
    \cup {[header |-> "canonical",
           marketing |-> <<<<"Facebook", FeedRow(1, "A", Num(MaxVal))>>>>,
           business |-> <<BusinessRow(1, Num(MaxVal)), r>>] : r \in DirtyBusinessRows}
\* a day with ad traffic and no sales
NoSalesFiles ==
    {[header |-> "canonical",
      marketing |-> <<<<"Facebook", [FeedRow(1, "A", Num(1))
                                        EXCEPT !.attributed_revenue = Num(0)]>>>>,
      business |-> <<[BusinessRow(1, Num(0)) EXCEPT !.new_customers = Num(1)]>>]}
BaseFiles ==
    [header |-> "canonical",
     marketing |-> <<<<"Facebook", FeedRow(1, "A", Num(1))>>>>,
     business |-> <<BusinessRow(1, Num(1))>>]

\* nothing has been read yet
NoData == [files |-> [header |-> "canonical", marketing |-> <<>>, business |-> <<>>],
           missing |-> {}]

MarketingHeader(files) ==
    IF files.header = "vendor" THEN VendorMarketingColumns ELSE MarketingColumns
BusinessHeader(files) ==
    IF files.header = "vendor" THEN VendorBusinessColumns ELSE BusinessColumns

FeedOf(tagged, c) ==
    LET Mine(t) == t[1] = c
        mine == SelectSeq(tagged, Mine)
    IN [i \in 1..Len(mine) |-> mine[i][2]]

(***************************************************************************)
(* DataProcessor                                                           *)
(***************************************************************************)
TagFacebook(rows, name) ==
    [i \in 1..Len(rows) |-> WithCols(rows[i], [channel |-> "Facebook"])]

\* df['channel'] = name
TagChannel(rows, name) == [i \in 1..Len(rows) |-> WithCols(rows[i], [channel |-> name])]

\* a returned value, written as Python prints it ("True", "False", "None")
Returned(v) == [ret |-> v]
Raised(e) == [raised |-> e]

\* pd.concat([facebook_df, google_df, tiktok_df], ignore_index=True) of the
\* tagged feeds
ConcatFeeds(tagged) ==
    TagChannel(FeedOf(tagged, "Facebook"), "Facebook")
    \o TagChannel(FeedOf(tagged, "Google"), "Google")
    \o TagChannel(FeedOf(tagged, "TikTok"), "TikTok")

ReadMarketing(files) ==
    DataFrame(MarketingHeader(files) \cup {"channel"}, ConcatFeeds(files.marketing))
ReadBusiness(files) == DataFrame(BusinessHeader(files), files.business)

ChannelFiles == {"Facebook.csv", "Google.csv", "TikTok.csv"}

\* load_data; `missing` is the set of files that do not exist
load_data(files, missing) ==
    /\ run' = "processor"
    /\ data' = [files |-> files, missing |-> missing]
    /\ UNCHANGED dashboard_vars
    /\ IF missing \cap ChannelFiles # {}
       THEN /\ result' = Returned("False")
            /\ UNCHANGED <<marketing_data, business_data, combined_data>>
       ELSE /\ marketing_data' = ReadMarketing(files)
            /\ IF "Business.csv" \in missing
               THEN /\ result' = Returned("False")
                    /\ UNCHANGED <<business_data, combined_data>>
               ELSE /\ business_data' = ReadBusiness(files)
                    /\ result' = Returned("True")
                    /\ UNCHANGED combined_data

\* lines 55-68 and 96-103 on one row: the date is parsed, every numeric column
\* the frame has is coerced and its gaps filled with 0, every text column the
\* frame has gets 'Unknown' for a blank
CoerceRow(r, numeric_cols, text_cols) ==
    [c \in DOMAIN r |->
        IF c = "date" THEN ToDatetime(r[c])
        ELSE IF c \in numeric_cols THEN FillNa(ToNumeric(r[c]), Zero)
        ELSE IF c \in text_cols THEN (IF r[c] = Blank THEN "Unknown" ELSE r[c])
        ELSE r[c]]

MarketingNumericCols == {"impressions", "clicks", "spend", "attributed_revenue"}
MarketingTextCols == {"tactic", "state", "campaign"}
BusinessNumericCols ==
    {"orders", "new_orders", "new_customers", "total_revenue", "gross_profit", "cogs"}

\* the derived columns the cleaning assigns, one after the other, before a
\* column it reads is missing (KeyError)
MarketingDerived(cols) ==
    IF ~({"impressions", "clicks"} \subseteq cols) THEN {}
    ELSE IF "spend" \notin cols THEN {"ctr"}
    ELSE IF "attributed_revenue" \notin cols THEN {"ctr", "cpc"}
    ELSE {"ctr", "cpc", "roas"}
BusinessDerived(cols) ==
    IF ~({"orders", "total_revenue"} \subseteq cols) THEN {}
    ELSE IF "gross_profit" \notin cols THEN {"aov"}
    ELSE {"aov", "gross_margin"}

CleanMarketingRow(r) ==
    LET c == CoerceRow(r, MarketingNumericCols, MarketingTextCols)
    IN WithCols(c, [k \in MarketingDerived(DOMAIN r) |->
                       CASE k = "ctr" -> GuardedPct(c.clicks, c.impressions)
                         [] k = "cpc" -> GuardedRatio(c.spend, c.clicks)
                         [] k = "roas" -> GuardedRatio(c.attributed_revenue, c.spend)])

\* the frame clean_marketing_data leaves, whether it returns or raises
CleanedMarketing(frame) ==
    DataFrame(frame.columns \cup MarketingDerived(frame.columns),
              [i \in 1..Len(frame.rows) |-> CleanMarketingRow(frame.rows[i])])

clean_marketing_data_unchecked ==
    /\ run \in {"none", "processor"}
    /\ run' = "processor"
    /\ marketing_data' = IF marketing_data.isNone
                         THEN DataFrame({"ctr", "cpc", "roas"}, <<>>)
                         ELSE CleanedMarketing(marketing_data)
    /\ result' = Returned("None")
    /\ UNCHANGED <<data, business_data, combined_data, dashboard_vars>>

clean_marketing_data ==
    /\ run \in {"none", "processor"}
    /\ run' = "processor"
    /\ IF marketing_data.isNone
       THEN /\ result' = Raised("ValueError: Marketing data not loaded. Call load_data() first.")
            /\ UNCHANGED marketing_data
       ELSE /\ marketing_data' = CleanedMarketing(marketing_data)
            /\ result' = IF "roas" \in MarketingDerived(marketing_data.columns)
                         THEN Returned("None")
                         ELSE Raised("KeyError")
    /\ UNCHANGED <<data, business_data, combined_data, dashboard_vars>>

CleanBusinessRow(r) ==
    LET c == CoerceRow(r, BusinessNumericCols, {})
    IN WithCols(c, [k \in BusinessDerived(DOMAIN r) |->
                       CASE k = "aov" -> GuardedRatio(c.total_revenue, c.orders)
                         [] k = "gross_margin" ->
                              GuardedPct(c.gross_profit, c.total_revenue)])

\* the frame clean_business_data leaves, whether it returns or raises
CleanedBusiness(frame) ==
    DataFrame(frame.columns \cup BusinessDerived(frame.columns),
              [i \in 1..Len(frame.rows) |-> CleanBusinessRow(frame.rows[i])])

clean_business_data ==
    /\ run \in {"none", "processor"}
    /\ run' = "processor"
    /\ IF business_data.isNone
       THEN /\ result' = Raised("ValueError: Business data not loaded. Call load_data() first.")
            /\ UNCHANGED business_data
       ELSE /\ business_data' = CleanedBusiness(business_data)
            /\ result' = IF "gross_margin" \in BusinessDerived(business_data.columns)
                         THEN Returned("None")
                         ELSE Raised("KeyError")
    /\ UNCHANGED <<data, marketing_data, combined_data, dashboard_vars>>

GroupByDateFirst(rows) ==
    LET days == SortedSeq({rows[i].date.ts : i \in 1..Len(rows)})
    IN [k \in 1..Len(days) |->
           LET g == RowsWhere(rows, "date", [ts |-> days[k]])
           IN [date |-> [ts |-> days[k]],
               impressions |-> g[1].impressions,
               clicks |-> g[1].clicks,
               spend |-> g[1].spend,
               attributed_revenue |-> g[1].attributed_revenue]]

\* groupby('date').agg(sum).reset_index(): one row per date, ascending
GroupByDateSum(rows) ==
    LET days == SortedSeq({rows[i].date.ts : i \in 1..Len(rows)})
    IN [k \in 1..Len(days) |->
           LET g == RowsWhere(rows, "date", [ts |-> days[k]])
           IN [date |-> [ts |-> days[k]],
               impressions |-> SeriesSum(Col(g, "impressions")),
               clicks |-> SeriesSum(Col(g, "clicks")),
               spend |-> SeriesSum(Col(g, "spend")),
               attributed_revenue |-> SeriesSum(Col(g, "attributed_revenue"))]]

\* the daily ctr, cpc and roas, recomputed from the daily sums
DailyRatios(r) ==
    WithCols(r, [ctr |-> GuardedPct(r.clicks, r.impressions),
                 cpc |-> GuardedRatio(r.spend, r.clicks),
                 roas |-> GuardedRatio(r.attributed_revenue, r.spend)])

DailyMeanOfRatios(rows) ==
    LET daily == GroupByDateSum(rows)
    IN [k \in 1..Len(daily) |->
           LET g == RowsWhere(rows, "date", daily[k].date)
           IN WithCols(daily[k], [ctr |-> SeriesMean(Col(g, "ctr")),
                                  cpc |-> SeriesMean(Col(g, "cpc")),
                                  roas |-> SeriesMean(Col(g, "roas"))])]

\* the frame aggregate_marketing_data returns
DailyMarketing(rows) ==
    LET daily == GroupByDateSum(rows)
    IN [k \in 1..Len(daily) |-> DailyRatios(daily[k])]

\* aggregate_marketing_data, called on the cleaned marketing frame
aggregate_marketing_data ==
    /\ run = "processor"
    /\ ~marketing_data.isNone /\ "ctr" \in marketing_data.columns
    /\ result' = [daily_marketing |-> DailyMarketing(marketing_data.rows)]
    /\ UNCHANGED <<data, run, marketing_data, business_data, combined_data, dashboard_vars>>

MarketingCols == <<"impressions", "clicks", "spend", "attributed_revenue",
                   "ctr", "cpc", "roas">>
NoMarketing ==
    [impressions |-> NaN, clicks |-> NaN, spend |-> NaN,
     attributed_revenue |-> NaN, ctr |-> NaN, cpc |-> NaN, roas |-> NaN]

\* pd.merge(left, right, on='date', how='left')
RECURSIVE MergeLeft(_, _)
MergeLeft(left, right) ==
    IF left = <<>> THEN <<>>
    ELSE LET l == Head(left)
             m == RowsWhere(right, "date", l.date)
         IN (IF m = <<>> THEN <<WithCols(l, NoMarketing)>>
             ELSE [i \in 1..Len(m) |-> WithCols(l, m[i])])
            \o MergeLeft(Tail(left), right)

NoFill(r, cols) == r

\* fillna(0) on the listed columns of one row
RECURSIVE FillCols(_, _)
FillCols(r, cols) ==
    IF cols = <<>> THEN r
    ELSE FillCols([r EXCEPT ![Head(cols)] = FillNa(@, Zero)], Tail(cols))

JointMetricsSpendGuard(r) ==
    WithCols(r, [marketing_efficiency |-> GuardedRatio(r.total_revenue, r.spend),
                 cpa |-> IF FGt0(r.spend) THEN FDiv(r.spend, r.new_customers)
                         ELSE Zero])

\* the columns combine_data and process_data add to the merged frame
JointMetrics(r) ==
    WithCols(r, [marketing_efficiency |-> GuardedRatio(r.total_revenue, r.spend),
                 cpa |-> GuardedRatio(r.spend, r.new_customers)])

CombineRows(business, daily) ==
    LET merged == MergeLeft(business, daily)
    IN [i \in 1..Len(merged) |-> JointMetrics(FillCols(merged[i], MarketingCols))]

\* the frame combine_data builds from the cleaned frames
CombinedFrame(marketing, business) ==
    DataFrame(business.columns
                  \cup {MarketingCols[i] : i \in 1..Len(MarketingCols)}
                  \cup {"marketing_efficiency", "cpa"},
              CombineRows(business.rows, DailyMarketing(marketing.rows)))

\* combine_data, called on cleaned frames as process_all does
combine_data ==
    /\ run = "processor"
    /\ ~marketing_data.isNone /\ "ctr" \in marketing_data.columns
    /\ ~business_data.isNone /\ "aov" \in business_data.columns
    /\ combined_data' = CombinedFrame(marketing_data, business_data)
    /\ result' = Returned("None")
    /\ UNCHANGED <<data, run, marketing_data, business_data, dashboard_vars>>

\* Series.min() and Series.max() of a column of timestamps
DateMin(dates) ==
    [ts |-> CHOOSE d \in {dates[i].ts : i \in 1..Len(dates)} :
               \A i \in 1..Len(dates) : d <= dates[i].ts]
DateMax(dates) ==
    [ts |-> CHOOSE d \in {dates[i].ts : i \in 1..Len(dates)} :
               \A i \in 1..Len(dates) : d >= dates[i].ts]

\* the None of a returned pair of dates
NoDate == [none |-> TRUE]

get_date_range_of_marketing ==
    /\ run \in {"none", "processor"}
    /\ run' = "processor"
    /\ result' = IF marketing_data.isNone \/ marketing_data.rows = <<>>
                    \/ "ctr" \notin marketing_data.columns
                 THEN [date_range |-> <<NoDate, NoDate>>]
                 ELSE [date_range |-> <<DateMin(Col(marketing_data.rows, "date")),
                                        DateMax(Col(marketing_data.rows, "date"))>>]
    /\ UNCHANGED <<data, marketing_data, business_data, combined_data, dashboard_vars>>

get_date_range ==
    /\ run \in {"none", "processor"}
    /\ run' = "processor"
    /\ result' = IF ~combined_data.isNone
                 THEN [date_range |-> <<DateMin(Col(combined_data.rows, "date")),
                                        DateMax(Col(combined_data.rows, "date"))>>]
                 ELSE [date_range |-> <<NoDate, NoDate>>]
    /\ UNCHANGED <<data, marketing_data, business_data, combined_data, dashboard_vars>>

\* process_all on a fresh processor: the steps in the order of the code, each
\* one run only if the one before returned; `called` lists the steps that ran
Steps == <<"load_data", "clean_marketing_data", "clean_business_data", "combine_data">>

process_all_cleans_anyway(files, missing) ==
    /\ run' = "processor"
    /\ data' = [files |-> files, missing |-> missing]
    /\ UNCHANGED <<dashboard_vars, combined_data>>
    /\ marketing_data' = IF missing \cap ChannelFiles # {} THEN marketing_data
                         ELSE CleanedMarketing(ReadMarketing(files))
    /\ business_data' = IF missing # {} THEN business_data
                        ELSE CleanedBusiness(ReadBusiness(files))
    /\ result' = [ret |-> IF missing = {} THEN "True" ELSE "False",
                 called |-> SubSeq(Steps, 1, 3)]

process_all(files, missing) ==
    /\ run' = "processor"
    /\ data' = [files |-> files, missing |-> missing]
    /\ UNCHANGED dashboard_vars
    /\ IF missing \cap ChannelFiles # {}
       THEN /\ result' = [ret |-> "False", called |-> SubSeq(Steps, 1, 1)]
            /\ UNCHANGED <<marketing_data, business_data, combined_data>>
       ELSE IF "Business.csv" \in missing
       THEN /\ marketing_data' = ReadMarketing(files)
            /\ result' = [ret |-> "False", called |-> SubSeq(Steps, 1, 1)]
            /\ UNCHANGED <<business_data, combined_data>>
       ELSE LET m == CleanedMarketing(ReadMarketing(files))
                b == CleanedBusiness(ReadBusiness(files))
            IN IF "roas" \notin m.columns
               THEN /\ marketing_data' = m
                    /\ business_data' = ReadBusiness(files)
                    /\ result' = [raised |-> "KeyError", called |-> SubSeq(Steps, 1, 2)]
                    /\ UNCHANGED combined_data
               ELSE IF "gross_margin" \notin b.columns
               THEN /\ marketing_data' = m
                    /\ business_data' = b
                    /\ result' = [raised |-> "KeyError", called |-> SubSeq(Steps, 1, 3)]
                    /\ UNCHANGED combined_data
               ELSE /\ marketing_data' = m
                    /\ business_data' = b
                    /\ combined_data' = CombinedFrame(m, b)
                    /\ result' = [ret |-> "True", called |-> Steps]

\* the rows of one group of a groupby
GroupSums(g) ==
    [impressions |-> SeriesSum(Col(g, "impressions")),
     clicks |-> SeriesSum(Col(g, "clicks")),
     spend |-> SeriesSum(Col(g, "spend")),
     attributed_revenue |-> SeriesSum(Col(g, "attributed_revenue"))]

ChannelsOf(rows) == {rows[i].channel : i \in 1..Len(rows)}

\* get_channel_summary on a frame that is not None
ChannelSummary(rows) ==
    [c \in ChannelsOf(rows) |->
        LET g == RowsWhere(rows, "channel", c)
        IN [impressions_sum |-> Round2(SeriesSum(Col(g, "impressions"))),
            impressions_mean |-> Round2(SeriesMean(Col(g, "impressions"))),
            clicks_sum |-> Round2(SeriesSum(Col(g, "clicks"))),
            clicks_mean |-> Round2(SeriesMean(Col(g, "clicks"))),
            spend_sum |-> Round2(SeriesSum(Col(g, "spend"))),
            spend_mean |-> Round2(SeriesMean(Col(g, "spend"))),
            attributed_revenue_sum |-> Round2(SeriesSum(Col(g, "attributed_revenue"))),
            attributed_revenue_mean |-> Round2(SeriesMean(Col(g, "attributed_revenue"))),
            ctr |-> Round2(SeriesMean(Col(g, "ctr"))),
            cpc |-> Round2(SeriesMean(Col(g, "cpc"))),
            roas |-> Round2(SeriesMean(Col(g, "roas")))]]

get_channel_summary ==
    /\ run = "processor"
    /\ result' = IF marketing_data.isNone THEN Returned("None")
                 ELSE IF ~({"ctr", "cpc", "roas"} \subseteq marketing_data.columns)
                 THEN Raised("KeyError")
                 ELSE [channel_summary |-> ChannelSummary(marketing_data.rows)]
    /\ UNCHANGED <<data, run, marketing_data, business_data, combined_data, dashboard_vars>>

(***************************************************************************)
(* MetricsCalculator(marketing_data, business_data, combined_data), built  *)
(* on the frames of a processor whose pipeline has completed.              *)
(***************************************************************************)
\* an unguarded ratio column: num / den [* 100], rounded to two decimals
RoundedRatio(num, den) == Round2(FDiv(num, den))
RoundedPct(num, den) == Round2(FMul(FDiv(num, den), Num(100)))

ChannelMetricsRow(g) ==
    LET t == GroupSums(g)
        active_days == Num(Len(Col(g, "date")))
    IN WithCols(t, [active_days |-> active_days,
                    ctr |-> RoundedPct(t.clicks, t.impressions),
                    cpc |-> RoundedRatio(t.spend, t.clicks),
                    roas |-> RoundedRatio(t.attributed_revenue, t.spend),
                    avg_daily_spend |-> RoundedRatio(t.spend, active_days)])

calculate_channel_metrics(marketing) ==
    [c \in ChannelsOf(marketing) |-> ChannelMetricsRow(RowsWhere(marketing, "channel", c))]

CampaignKeys(rows) == {<<rows[i].channel, rows[i].campaign>> : i \in 1..Len(rows)}
CampaignRows(rows, k) ==
    LET Test(r) == r.channel = k[1] /\ r.campaign = k[2] IN SelectSeq(rows, Test)

CampaignMetricsRow(g) ==
    LET t == GroupSums(g)
    IN WithCols(t, [active_days |-> Num(Len(Col(g, "date"))),
                    ctr |-> RoundedPct(t.clicks, t.impressions),
                    cpc |-> RoundedRatio(t.spend, t.clicks),
                    roas |-> RoundedRatio(t.attributed_revenue, t.spend)])

calculate_campaign_metrics(marketing) ==
    [k \in CampaignKeys(marketing) |-> CampaignMetricsRow(CampaignRows(marketing, k))]

calculate_business_kpis(marketing, business) ==
    LET total_marketing_spend == SeriesSum(Col(marketing, "spend"))
        total_attributed_revenue == SeriesSum(Col(marketing, "attributed_revenue"))
        total_revenue == SeriesSum(Col(business, "total_revenue"))
        total_orders == SeriesSum(Col(business, "orders"))
        total_new_customers == SeriesSum(Col(business, "new_customers"))
        total_gross_profit == SeriesSum(Col(business, "gross_profit"))
    IN [total_revenue |-> total_revenue,
        total_orders |-> total_orders,
        total_new_customers |-> total_new_customers,
        avg_aov |-> FDiv(total_revenue, total_orders),
        avg_daily_revenue |-> SeriesMean(Col(business, "total_revenue")),
        avg_daily_orders |-> SeriesMean(Col(business, "orders")),
        total_gross_profit |-> total_gross_profit,
        avg_gross_margin |-> FMul(FDiv(total_gross_profit, total_revenue), Num(100)),
        total_marketing_spend |-> total_marketing_spend,
        overall_roas |-> GuardedRatio(total_attributed_revenue, total_marketing_spend),
        marketing_efficiency |-> GuardedRatio(total_revenue, total_marketing_spend),
        customer_acquisition_cost |->
            GuardedRatio(total_marketing_spend, total_new_customers)]

MetricsCalculator(method) ==
    /\ run = "processor"
    /\ ~combined_data.isNone
    /\ result' =
          CASE method = "calculate_channel_metrics" ->
                 [channel_metrics |-> calculate_channel_metrics(marketing_data.rows)]
            [] method = "calculate_campaign_metrics" ->
                 [campaign_metrics |-> calculate_campaign_metrics(marketing_data.rows)]
            [] method = "calculate_business_kpis" ->
                 [business_kpis |->
                     calculate_business_kpis(marketing_data.rows, business_data.rows)]
    /\ UNCHANGED <<data, run, marketing_data, business_data, combined_data, dashboard_vars>>

Methods ==
    {"calculate_channel_metrics", "calculate_campaign_metrics", "calculate_business_kpis"}

\* Timestamps are day numbers; day 1 is Monday 2024-01-01.  The ISO years 2024
\* and 2025 have 52 weeks each, so up to day 1092 (2026-12-27) the ISO week
\* number of a day repeats every 364 days.
IsoWeek(d) == ((d.ts - 1) % 364) \div 7 + 1

RollingWindow == 7
TrendRows == 30

\* Series.rolling(window).sum() and .mean(): undefined (NaN) until the window
\* is full, and wherever the window holds a NaN
RollingSumOfSix(series, window) ==
    [i \in 1..Len(series) |->
        IF i < window - 1 THEN NaN
        ELSE LET w == SubSeq(series, i - window + 2, i)
             IN IF \E k \in 1..Len(w) : IsNaN(w[k]) THEN NaN ELSE SeriesSum(w)]

RollingSum(series, window) ==
    [i \in 1..Len(series) |->
        IF i < window THEN NaN
        ELSE LET w == SubSeq(series, i - window + 1, i)
             IN IF \E k \in 1..Len(w) : IsNaN(w[k]) THEN NaN ELSE SeriesSum(w)]

RollingMean(series, window) ==
    LET sums == RollingSum(series, window)
    IN [i \in 1..Len(series) |-> FDiv(sums[i], Num(window))]

\* the three rolling columns added to the rows of a time series
WithRolling(rows) ==
    LET revenue == RollingMean(Col(rows, "total_revenue"), RollingWindow)
        spend == RollingMean(Col(rows, "spend"), RollingWindow)
        attributed_sum == RollingSum(Col(rows, "attributed_revenue"), RollingWindow)
        spend_sum == RollingSum(Col(rows, "spend"), RollingWindow)
    IN [i \in 1..Len(rows) |->
           WithCols(rows[i], [revenue_7d_avg |-> revenue[i],
                              spend_7d_avg |-> spend[i],
                              roas_7d_avg |-> FDiv(attributed_sum[i], spend_sum[i])])]

WeeklyCols ==
    {"total_revenue", "orders", "new_customers", "spend", "attributed_revenue",
     "impressions", "clicks"}

\* groupby('week').agg(sum): one row per ISO week number, in ascending order
WeeklySums(rows) ==
    LET weeks == SortedSeq({IsoWeek(rows[i].date) : i \in 1..Len(rows)})
        InWeek(w) == LET Test(r) == IsoWeek(r.date) = w IN SelectSeq(rows, Test)
    IN [k \in 1..Len(weeks) |->
           [c \in WeeklyCols |-> SeriesSum(Col(InWeek(weeks[k]), c))]
              @@ [week |-> weeks[k]]]

calculate_time_series_metrics(period) ==
    /\ run = "processor"
    /\ ~combined_data.isNone
    /\ result' = [period |-> period,
                  time_series |-> IF period = "daily"
                                  THEN WithRolling(combined_data.rows)
                                  ELSE WithRolling(WeeklySums(combined_data.rows))]
    /\ UNCHANGED <<data, run, marketing_data, business_data, combined_data, dashboard_vars>>

\* a > b for two floats (False when either is NaN)
FGt(a, b) == ~IsNaN(a) /\ ~IsNaN(b) /\ a # b /\ FGt0(FSub(a, b))

\* Series.idxmax() of a column with a number in it: the first label, in index
\* order, whose value no other value exceeds
IdxMax(frame, col, labels) ==
    LET IsMax(c) == /\ c \in DOMAIN frame
                    /\ ~IsNaN(frame[c][col])
                    /\ \A d \in DOMAIN frame : ~FGt(frame[d][col], frame[c][col])
        first == CHOOSE i \in 1..Len(labels) :
                    IsMax(labels[i]) /\ \A j \in 1..(i - 1) : ~IsMax(labels[j])
    IN labels[first]

\* DataFrame.head(n) and DataFrame.tail(n)
HeadRows(rows, n) == SubSeq(rows, 1, IF Len(rows) < n THEN Len(rows) ELSE n)
TailRows(rows, n) == SubSeq(rows, IF Len(rows) < n THEN 1 ELSE Len(rows) - n + 1, Len(rows))

\* revenue_growth and trend_direction of the trend insight
TrendOfMeans(recent, early) ==
    LET recent_avg_revenue == SeriesMean(recent)
        early_avg_revenue == SeriesMean(early)
        revenue_growth ==
            FMul(FDiv(FSub(recent_avg_revenue, early_avg_revenue), early_avg_revenue),
                 Num(100))
    IN [revenue_growth |-> revenue_growth,
        trend_direction |-> IF FGt0(revenue_growth) THEN "increasing" ELSE "decreasing"]

Insights(marketing, business, combined, all_nan) ==
    LET channel_metrics == calculate_channel_metrics(marketing)
        no_number == \A c \in DOMAIN channel_metrics : IsNaN(channel_metrics[c].roas)
        best_channel == IF no_number THEN "nan"
                        ELSE IdxMax(channel_metrics, "roas", Channels)
        best_roas == IF no_number THEN NaN ELSE channel_metrics[best_channel].roas
        overall_efficiency == FDiv(SeriesSum(Col(business, "total_revenue")),
                                   SeriesSum(Col(marketing, "spend")))
        trend == TrendOfMeans(Col(TailRows(combined, TrendRows), "total_revenue"),
                              Col(HeadRows(combined, TrendRows), "total_revenue"))
        kpis == calculate_business_kpis(marketing, business)
    IN IF DOMAIN channel_metrics = {} \/ (no_number /\ all_nan = "ValueError")
       THEN Raised("ValueError")
       ELSE [insights |->
               <<[type |-> "channel_performance",
                  title |-> best_channel \o " is the Top Performing Channel",
                  value |-> best_roas],
                 [type |-> "efficiency",
                  title |-> "Marketing Efficiency",
                  value |-> overall_efficiency],
                 [type |-> "trend",
                  title |-> IF trend.trend_direction = "increasing"
                            THEN "Revenue Trend is Increasing"
                            ELSE "Revenue Trend is Decreasing",
                  value |-> trend.revenue_growth],
                 [type |-> "customer_acquisition",
                  title |-> "Customer Acquisition Efficiency",
                  value |-> FDiv(kpis.customer_acquisition_cost, kpis.avg_aov)]>>]

\* idxmax of a column of NaN only is NaN before pandas 3.0 and a ValueError
\* since
generate_insights ==
    /\ run = "processor"
    /\ ~combined_data.isNone
    /\ \E all_nan \in {"nan", "ValueError"} :
          result' = Insights(marketing_data.rows, business_data.rows,
                             combined_data.rows, all_nan)
    /\ UNCHANGED <<data, run, marketing_data, business_data, combined_data, dashboard_vars>>

(***************************************************************************)
(* main.py: the dashboard.                                                 *)
(***************************************************************************)
NotRendered == [rendered |-> FALSE]

\* the vendor's column names and their canonical names
marketing_column_mapping ==
    ("impression" :> "impressions") @@ ("attributed revenue" :> "attributed_revenue")
business_column_mapping ==
    ("# of orders" :> "orders") @@ ("# of new orders" :> "new_orders")
    @@ ("total revenue" :> "total_revenue") @@ ("gross profit" :> "gross_profit")
    @@ ("new customers" :> "new_customers") @@ ("COGS" :> "cogs")

\* df.rename(columns=mapping): on the header, and on one row
RenameColumns(cols, mapping) ==
    {IF k \in DOMAIN mapping THEN mapping[k] ELSE k : k \in cols}
Rename(r, mapping) ==
    [c \in RenameColumns(DOMAIN r, mapping) |->
        r[CHOOSE k \in DOMAIN r :
              (IF k \in DOMAIN mapping THEN mapping[k] ELSE k) = c]]

load_real_data_keeps_feeds(files, missing) ==
    /\ run' = "dashboard"
    /\ data' = [files |-> files, missing |-> missing]
    /\ marketing_df' = IF missing \cap ChannelFiles = {}
                       THEN DataFrame(MarketingHeader(files) \cup {"channel"},
                                      ConcatFeeds(files.marketing))
                       ELSE marketing_df
    /\ view' = IF missing # {} THEN [stopped |-> TRUE] ELSE NotRendered
    /\ business_df' = IF missing = {}
                      THEN DataFrame(BusinessHeader(files), files.business)
                      ELSE business_df
    /\ UNCHANGED <<combined_df, processor_vars>>

\* load_real_data; `missing` is the set of files that do not exist.  When a
\* file is missing it returns (None, None) and main stops.
load_real_data(files, missing) ==
    /\ run' = "dashboard"
    /\ data' = [files |-> files, missing |-> missing]
    /\ IF missing # {}
       THEN /\ view' = [stopped |-> TRUE]
            /\ UNCHANGED <<marketing_df, business_df>>
       ELSE /\ marketing_df' =
                  DataFrame(RenameColumns(MarketingHeader(files), marketing_column_mapping)
                                \cup {"channel"},
                            LET all == ConcatFeeds(files.marketing)
                            IN [i \in 1..Len(all) |->
                                   [Rename(all[i], marketing_column_mapping)
                                       EXCEPT !.date = ToDatetime(@)]])
            /\ business_df' =
                  DataFrame(RenameColumns(BusinessHeader(files), business_column_mapping),
                            [i \in 1..Len(files.business) |->
                                [Rename(files.business[i], business_column_mapping)
                                    EXCEPT !.date = ToDatetime(@)]])
            /\ view' = NotRendered
    /\ UNCHANGED <<combined_df, processor_vars>>

ProcessMarketingRow(r) ==
    WithCols(r, [date |-> ToDatetime(r.date),
                 ctr |-> GuardedPct(r.clicks, r.impressions),
                 cpc |-> GuardedRatio(r.spend, r.clicks),
                 roas |-> GuardedRatio(r.attributed_revenue, r.spend)])

ProcessBusinessRow(r) ==
    WithCols(r, [date |-> ToDatetime(r.date),
                 aov |-> GuardedRatio(r.total_revenue, r.orders),
                 gross_margin |-> GuardedPct(r.gross_profit, r.total_revenue)])

\* combined_df.fillna(0): every column of the merged frame
AllNumericCols ==
    <<"orders", "new_customers", "total_revenue", "gross_profit", "aov",
      "gross_margin">> \o MarketingCols

ProcessCombinedRows(business, marketing) ==
    LET daily == GroupByDateSum(marketing)
        merged == MergeLeft(business, [k \in 1..Len(daily) |-> DailyRatios(daily[k])])
    IN [i \in 1..Len(merged) |-> JointMetrics(FillCols(merged[i], AllNumericCols))]

process_data ==
    /\ run = "dashboard"
    /\ ~marketing_df.isNone /\ ~business_df.isNone
    /\ combined_df.isNone
    /\ LET m == [i \in 1..Len(marketing_df.rows) |->
                    ProcessMarketingRow(marketing_df.rows[i])]
           b == [i \in 1..Len(business_df.rows) |->
                    ProcessBusinessRow(business_df.rows[i])]
       IN /\ marketing_df' = DataFrame(marketing_df.columns \cup {"ctr", "cpc", "roas"}, m)
          /\ business_df' = DataFrame(business_df.columns \cup {"aov", "gross_margin"}, b)
          /\ combined_df' =
                DataFrame(business_df.columns \cup {"aov", "gross_margin"}
                              \cup {MarketingCols[i] : i \in 1..Len(MarketingCols)}
                              \cup {"marketing_efficiency", "cpa"},
                          ProcessCombinedRows(b, m))
    /\ UNCHANGED <<data, run, view, processor_vars>>

DaysOf(rows) == {rows[i].date.ts : i \in 1..Len(rows)}
MinDay(rows) == CHOOSE d \in DaysOf(rows) : \A e \in DaysOf(rows) : d <= e
MaxDay(rows) == CHOOSE d \in DaysOf(rows) : \A e \in DaysOf(rows) : d >= e

DateFilterBeforeEnd(rows, date_range) ==
    IF Len(date_range) = 2
    THEN LET Test(r) == r.date.ts >= date_range[1] /\ r.date.ts < date_range[2]
         IN SelectSeq(rows, Test)
    ELSE rows

\* the rows whose date lies in the selected range; a selection that does not
\* have two endpoints filters nothing
DateFilter(rows, date_range) ==
    IF Len(date_range) = 2
    THEN LET Test(r) == r.date.ts >= date_range[1] /\ r.date.ts <= date_range[2]
         IN SelectSeq(rows, Test)
    ELSE rows

FilterMarketing(rows, date_range, selected_channel, selected_campaign) ==
    LET byDate == DateFilter(rows, date_range)
        byChannel == IF selected_channel # "All"
                     THEN RowsWhere(byDate, "channel", selected_channel)
                     ELSE byDate
    IN IF selected_campaign # "All"
       THEN RowsWhere(byChannel, "campaign", selected_campaign)
       ELSE byChannel

\* the channel_metrics frame of the Channel Performance chart
ChannelPerformance(filtered_marketing) ==
    [c \in ChannelsOf(filtered_marketing) |->
        LET t == GroupSums(RowsWhere(filtered_marketing, "channel", c))
        IN WithCols(t, [roas |-> FDiv(t.attributed_revenue, t.spend)])]

\* the campaign_summary frame of the Campaign Performance table
CampaignSummary(filtered_marketing) ==
    [k \in CampaignKeys(filtered_marketing) |->
        LET t == GroupSums(CampaignRows(filtered_marketing, k))
        IN WithCols(t, [CTR |-> RoundedPct(t.clicks, t.impressions),
                        CPC |-> RoundedRatio(t.spend, t.clicks),
                        ROAS |-> RoundedRatio(t.attributed_revenue, t.spend)])]

\* Series.idxmax() of a column without rows raises; of a column of NaN only it
\* returns NaN (pandas before 3.0)
IdxMaxOfEmpty == "ValueError"

\* the page's sections, in the order main renders them
Sections ==
    <<"Executive Summary", "Channel Deep Dive", "Campaign Performance Analysis",
      "Geographic Performance Analysis", "Marketing Funnel Analysis",
      "Seasonality & Time Analysis", "Enhanced Customer Metrics", "Key Insights",
      "Footer">>

\* the channel_funnel frame of the Funnel Insights column
ChannelFunnel(filtered_marketing, avg_aov) ==
    [c \in ChannelsOf(filtered_marketing) |->
        LET t == GroupSums(RowsWhere(filtered_marketing, "channel", c))
        IN [CTR |-> RoundedPct(t.clicks, t.impressions),
            CVR |-> RoundedPct(FDiv(t.attributed_revenue, avg_aov), t.clicks)]]

\* channel_funnel.loc[channel_funnel[col].idxmax(), 'channel']: idxmax of a
\* column of NaN only is NaN, which is no row label (pandas 3.0 raises inside
\* idxmax instead)
LocIdxMax(frame, col) ==
    IF \A c \in DOMAIN frame : IsNaN(frame[c][col]) THEN "KeyError" ELSE "None"

\* the exception, if any, the body of the funnel section's try block raises
FunnelBody(filtered_marketing, filtered_combined) ==
    LET total_impressions == SeriesSum(Col(filtered_marketing, "impressions"))
        total_clicks == SeriesSum(Col(filtered_marketing, "clicks"))
        avg_aov == SeriesMean(Col(filtered_combined, "aov"))
        channel_funnel == ChannelFunnel(filtered_marketing, avg_aov)
    IN IF FGt0(total_impressions) /\ FGt0(total_clicks)
          /\ Len(filtered_marketing) > 0 /\ DOMAIN channel_funnel # {}
       THEN IF LocIdxMax(channel_funnel, "CTR") # "None"
            THEN LocIdxMax(channel_funnel, "CTR")
            ELSE LocIdxMax(channel_funnel, "CVR")
       ELSE "None"

FunnelSectionUncaught(filtered_marketing, filtered_combined) ==
    LET valid == /\ FGt0(SeriesSum(Col(filtered_marketing, "impressions")))
                 /\ FGt0(SeriesSum(Col(filtered_marketing, "clicks")))
    IN [chart |-> valid,
        insufficient |-> ~valid,
        insights |-> valid,
        unavailable |-> FALSE,
        raised |-> FunnelBody(filtered_marketing, filtered_combined)]

\* the Marketing Funnel Analysis section: the chart and the insights are drawn
\* when total impressions and total clicks are both positive, the warning
\* otherwise; an exception of the body is caught and reported
FunnelSection(filtered_marketing, filtered_combined) ==
    LET valid == /\ FGt0(SeriesSum(Col(filtered_marketing, "impressions")))
                 /\ FGt0(SeriesSum(Col(filtered_marketing, "clicks")))
    IN [chart |-> valid,
        insufficient |-> ~valid,
        insights |-> valid,
        unavailable |-> FunnelBody(filtered_marketing, filtered_combined) # "None",
        raised |-> "None"]

\* what one run of the page shows: spend_trend is the y column of the
\* 'Daily Marketing Spend' chart.  The sections after the campaign table
\* display nothing the fields below do not hold, except that two of them take
\* the idxmax of a per-channel column (channel_efficiency, then channel_metrics)
\* and raise when the filtered marketing data has no channel.
Render(date_range, selected_channel, selected_campaign) ==
    LET filtered_combined == DateFilter(combined_df.rows, date_range)
        filtered_marketing == FilterMarketing(marketing_df.rows, date_range,
                                              selected_channel, selected_campaign)
        total_revenue == SeriesSum(Col(filtered_combined, "total_revenue"))
        total_spend == SeriesSum(Col(filtered_marketing, "spend"))
        total_customers == SeriesSum(Col(filtered_combined, "new_customers"))
        funnel == FunnelSection(filtered_marketing, filtered_combined)
        \* the number of sections rendered to their end
        completed ==
            IF funnel.raised # "None" THEN 4
            ELSE IF Len(filtered_combined) > 1 /\ ChannelsOf(filtered_marketing) = {}
            THEN 6
            ELSE IF DOMAIN ChannelPerformance(filtered_marketing) = {}
            THEN 7
            ELSE Len(Sections)
    IN [date_range |-> date_range,
        selected_channel |-> selected_channel,
        selected_campaign |-> selected_campaign,
        filtered_combined |-> filtered_combined,
        filtered_marketing |-> filtered_marketing,
        total_revenue |-> total_revenue,
        revenue_per_day |-> FDiv(total_revenue, Num(Len(filtered_combined))),
        total_spend |-> total_spend,
        spend_trend |-> Col(filtered_combined, "spend"),
        spend_per_day |-> FDiv(total_spend, Num(Len(filtered_combined))),
        overall_roas |->
            GuardedRatio(SeriesSum(Col(filtered_marketing, "attributed_revenue")),
                         total_spend),
        total_customers |-> total_customers,
        cac |-> GuardedRatio(total_spend, total_customers),
        channel_metrics |-> ChannelPerformance(filtered_marketing),
        campaign_summary |-> CampaignSummary(filtered_marketing),
        funnel |-> funnel,
        completed |-> SubSeq(Sections, 1, completed),
        raised |->
            IF completed = 4 THEN funnel.raised
            ELSE IF completed < Len(Sections) THEN IdxMaxOfEmpty
            ELSE "None"]

\* the campaigns the sidebar offers for a selected channel
CampaignOptions(selected_channel) ==
    LET rows == IF selected_channel # "All"
                THEN RowsWhere(marketing_df.rows, "channel", selected_channel)
                ELSE marketing_df.rows
    IN {"All"} \cup {rows[i].campaign : i \in 1..Len(rows)}

main_filters_in_place(date_range, selected_channel, selected_campaign) ==
    /\ view' = Render(date_range, selected_channel, selected_campaign)
    /\ marketing_df' =
          [marketing_df EXCEPT !.rows = FilterMarketing(@, date_range, selected_channel,
                                                        selected_campaign)]
    /\ UNCHANGED <<data, run, business_df, combined_df, processor_vars>>

\* one run of the page with the sidebar's current selection
main(date_range, selected_channel, selected_campaign) ==
    /\ view' = Render(date_range, selected_channel, selected_campaign)
    /\ UNCHANGED <<data, run, marketing_df, business_df, combined_df, processor_vars>>

Rendered == "date_range" \in DOMAIN view

\* the date selections the sidebar allows: a range inside [min_date, max_date],
\* or one date while the second endpoint has not been picked yet
DateRangeOptions ==
    LET lo == MinDay(combined_df.rows)
        hi == MaxDay(combined_df.rows)
    IN {<<s, e>> : s \in lo..hi, e \in lo..hi} \cup {<<s>> : s \in lo..hi}

ChannelOptions == {"All"} \cup ChannelsOf(marketing_df.rows)

\* the first run of the page: every widget has its default value
first_run ==
    /\ run = "dashboard"
    /\ ~combined_df.isNone
    /\ view = NotRendered
    /\ main(<<MinDay(combined_df.rows), MaxDay(combined_df.rows)>>, "All", "All")

\* a rerun of the page after the user changed one widget
change_date_range ==
    /\ run = "dashboard"
    /\ Rendered
    /\ \E date_range \in DateRangeOptions \ {view.date_range} :
          /\ date_range[1] <= date_range[Len(date_range)]
          /\ main(date_range, view.selected_channel, view.selected_campaign)

\* the campaign box keeps its value when the new channel still offers it
change_channel ==
    /\ run = "dashboard"
    /\ Rendered
    /\ \E selected_channel \in ChannelOptions \ {view.selected_channel} :
          \E selected_campaign \in
                {"All"} \cup ({view.selected_campaign}
                                 \cap CampaignOptions(selected_channel)) :
             main(view.date_range, selected_channel, selected_campaign)

change_campaign ==
    /\ run = "dashboard"
    /\ Rendered
    /\ \E selected_campaign \in
             CampaignOptions(view.selected_channel) \ {view.selected_campaign} :
          main(view.date_range, view.selected_channel, selected_campaign)

Init ==
    /\ data = NoData
    /\ run = "none"
    /\ marketing_data = None
    /\ business_data = None
    /\ combined_data = None
    /\ result = Returned("None")
    /\ marketing_df = None
    /\ business_df = None
    /\ combined_df = None
    /\ view = NotRendered

ProcessorFiles == CanonicalFiles \cup VendorFiles \cup DirtyFiles \cup NoSalesFiles
DashboardFiles == CanonicalFiles \cup VendorFiles \cup NoSalesFiles

\* a processor that has just been constructed: a file is read by its first call
Fresh == run = "none"

\* Longer histories, for the rolling, weekly and trend computations: one
\* Facebook row and one business row per day, all cells 1, except that on one
\* day the business row holds another value and a Google row with its own
\* attributed revenue is added.  The days are consecutive, or two weeks of one
\* year and a week of the next.  SilentFiles have no marketing rows, or one
\* channel that spent and earned nothing.
MaxDays == 8
LongDays == 31
SeriesVals == {Num(0), Num(1), Num(1 + MaxVal)}
DayLists ==
    {[i \in 1..n |-> i] : n \in ((MaxDays - 2)..MaxDays) \cup {LongDays}}
    \cup {<<1, 8, 365>>}
HistoryFiles ==
    UNION {
    {[header |-> "canonical",
      marketing |->
          [i \in 1..Len(ds) |-> <<"Facebook", FeedRow(ds[i], "A", Num(1))>>]
          \o <<<<"Google", [FeedRow(ds[p], "B", Num(1)) EXCEPT !.attributed_revenue = y]>>>>,
      business |->
          [i \in 1..Len(ds) |-> BusinessRow(ds[i], IF i = p THEN x ELSE Num(1))]] :
        p \in 1..Len(ds), x \in SeriesVals, y \in SeriesVals} : ds \in DayLists}
SilentFiles ==
    {[header |-> "canonical", marketing |-> m,
      business |-> [i \in 1..MaxDays |-> BusinessRow(i, Num(1))]] :
        m \in {<<>>, <<<<"Facebook", FeedRow(1, "A", Num(0))>>>>}}

\* MetricsCalculator over the frames of a processor whose process_all returned
NextMetrics ==
    \/ /\ Fresh
       /\ \E files \in HistoryFiles \cup SilentFiles : process_all(files, {})
    \/ \E period \in {"daily", "weekly"} : calculate_time_series_metrics(period)
    \/ generate_insights

SpecMetrics == Init /\ [][NextMetrics]_vars

(***************************************************************************)
(* test_setup.py: the setup validation script.  `data` holds what the      *)
(* script finds on the machine, `result` what it has done so far.          *)
(***************************************************************************)
RequiredPackages == <<"pandas", "numpy", "streamlit", "plotly">>
ExpectedFiles == {"Facebook.csv", "Google.csv", "TikTok.csv", "Business.csv"}
RequiredFiles ==
    {"main.py", "requirements.txt", "README.md", "scripts/data_processor.py",
     "scripts/metrics_calculator.py"}

\* the machines explored: at most one package and one required file are
\* missing; the data directory is missing or holds any of the expected files
Machines ==
    {[packages |-> {RequiredPackages[i] : i \in 1..Len(RequiredPackages)} \ gone,
      data_dir |-> dir[1], data_files |-> dir[2],
      files |-> RequiredFiles \ lost] :
        gone \in {{}} \cup {{RequiredPackages[i]} : i \in 1..Len(RequiredPackages)},
        dir \in {<<FALSE, {}>>} \cup {<<TRUE, fs>> : fs \in SUBSET ExpectedFiles},
        lost \in {{}} \cup {{f} : f \in RequiredFiles}}

\* returns False at the first package that cannot be imported
TestImports(machine) ==
    \A i \in 1..Len(RequiredPackages) : RequiredPackages[i] \in machine.packages

TestDataDirectoryStrict(machine) ==
    machine.data_dir /\ ExpectedFiles \subseteq machine.data_files

\* a missing expected file is only reported
TestDataDirectory(machine) == machine.data_dir

TestFileStructure(machine) == RequiredFiles \subseteq machine.files

AllPassed == "All tests passed! Your dashboard is ready to run."
SomeFailed == "Some tests failed. Please check the issues above."

\* main of test_setup.py up to the first check
test_setup_main(machine) ==
    /\ Fresh
    /\ run' = "test_setup"
    /\ data' = machine
    /\ result' = [returned |-> <<>>, all_tests_passed |-> TRUE, report |-> "None"]
    /\ UNCHANGED <<marketing_data, business_data, combined_data, dashboard_vars>>

\* all_tests_passed &= check(): the check is always called
Check(n, returns) ==
    /\ run = "test_setup"
    /\ Len(result.returned) = n
    /\ result' = [result EXCEPT !.returned = Append(@, returns),
                                !.all_tests_passed = @ /\ returns]
    /\ UNCHANGED <<data, run, marketing_data, business_data, combined_data, dashboard_vars>>

test_imports == Check(0, TestImports(data))
test_data_directory == Check(1, TestDataDirectory(data))
test_file_structure == Check(2, TestFileStructure(data))

report ==
    /\ run = "test_setup"
    /\ Len(result.returned) = 3
    /\ result.report = "None"
    /\ result' = [result EXCEPT !.report = IF result.all_tests_passed
                                           THEN AllPassed ELSE SomeFailed]
    /\ UNCHANGED <<data, run, marketing_data, business_data, combined_data, dashboard_vars>>

NextSetup ==
    \/ \E machine \in Machines : test_setup_main(machine)
    \/ test_imports
    \/ test_data_directory
    \/ test_file_structure
    \/ report

SpecSetup == Init /\ [][NextSetup]_vars

Next ==
    \/ /\ Fresh
       /\ \E files \in ProcessorFiles : load_data(files, {})
    \/ /\ Fresh
       /\ \E f \in ChannelFiles \cup {"Business.csv"} : load_data(BaseFiles, {f})
    \/ /\ Fresh
       /\ \E files \in ProcessorFiles : process_all(files, {})
    \/ /\ Fresh
       /\ \E f \in ChannelFiles \cup {"Business.csv"} : process_all(BaseFiles, {f})
    \/ clean_marketing_data
    \/ clean_business_data
    \/ aggregate_marketing_data
    \/ combine_data
    \/ get_channel_summary
    \/ get_date_range
    \/ \E method \in Methods : MetricsCalculator(method)
    \/ /\ run = "none"
       /\ \E files \in DashboardFiles : load_real_data(files, {})
    \/ /\ run = "none"
       /\ \E f \in ChannelFiles \cup {"business.csv"} : load_real_data(BaseFiles, {f})
    \/ process_data
    \/ first_run
    \/ change_date_range
    \/ change_channel
    \/ change_campaign

Spec == Init /\ [][Next]_vars

(***************************************************************************)
(* Properties.  The expected values are stated on integers, by             *)
(* cross-multiplication, independently of the arithmetic above.            *)
(***************************************************************************)
Positive(a) == a[1] > 0

\* the integer total of a column over the rows with index in S (blank cells
\* count as nothing)
RECURSIVE IntSum(_, _, _)
IntSum(rows, col, S) ==
    IF S = {} THEN 0
    ELSE LET i == CHOOSE j \in S : TRUE
         IN rows[i][col][1] + IntSum(rows, col, S \ {i})

OnDate(rows, d) == {i \in 1..Len(rows) : rows[i].date = d}
OnDateOf(rows, d, c) == {i \in 1..Len(rows) : rows[i].date = d /\ rows[i].channel = c}
DatesIn(rows) == {rows[i].date : i \in 1..Len(rows)}
NonPositive(a) == a[2] # 0 /\ a[1] <= 0

\* x = num / den and x = num / den * 100, for a positive finite den
IsQuotient(x, num, den) ==
    IF num = NaN THEN x = NaN
    ELSE x[2] > 0 /\ x[1] * den[1] * num[2] = num[1] * den[2] * x[2]
IsPercent(x, num, den) ==
    IF num = NaN THEN x = NaN
    ELSE x[2] > 0 /\ x[1] * den[1] * num[2] = 100 * num[1] * den[2] * x[2]

QuotientOrZero(x, num, den) ==
    IF Positive(den) THEN IsQuotient(x, num, den) ELSE x = Zero
PercentOrZero(x, num, den) ==
    IF Positive(den) THEN IsPercent(x, num, den) ELSE x = Zero

MarketingRowDerived(r) ==
    /\ PercentOrZero(r.ctr, r.clicks, r.impressions)
    /\ QuotientOrZero(r.cpc, r.spend, r.clicks)
    /\ QuotientOrZero(r.roas, r.attributed_revenue, r.spend)
BusinessRowDerived(r) ==
    /\ QuotientOrZero(r.aov, r.total_revenue, r.orders)
    /\ PercentOrZero(r.gross_margin, r.gross_profit, r.total_revenue)

Cleaned(frame, col) == ~frame.isNone /\ col \in frame.columns

\* C1: after cleaning (clean_marketing_data, clean_business_data, process_data)
\* every marketing row has ctr = clicks/impressions*100 if impressions > 0 else 0,
\* cpc = spend/clicks if clicks > 0 else 0, roas = attributed_revenue/spend if
\* spend > 0 else 0, and every business row has aov = total_revenue/orders if
\* orders > 0 else 0, gross_margin = gross_profit/total_revenue*100 if
\* total_revenue > 0 else 0.
C1_PerRowRatios ==
    /\ Cleaned(marketing_data, "ctr") =>
          \A i \in 1..Len(marketing_data.rows) : MarketingRowDerived(marketing_data.rows[i])
    /\ Cleaned(business_data, "aov") =>
          \A i \in 1..Len(business_data.rows) : BusinessRowDerived(business_data.rows[i])
    /\ Cleaned(marketing_df, "ctr") =>
          \A i \in 1..Len(marketing_df.rows) : MarketingRowDerived(marketing_df.rows[i])
    /\ Cleaned(business_df, "aov") =>
          \A i \in 1..Len(business_df.rows) : BusinessRowDerived(business_df.rows[i])

\* a cleaned processor with a marketing row of positive ctr, a marketing row
\* without clicks or spend, and a business row of positive aov
C1_Witness ==
    /\ Cleaned(marketing_data, "ctr") /\ Cleaned(business_data, "aov")
    /\ \E i \in 1..Len(marketing_data.rows) :
          Positive(marketing_data.rows[i].impressions) /\ marketing_data.rows[i].ctr # Zero
    /\ \E i \in 1..Len(marketing_data.rows) :
          /\ marketing_data.rows[i].clicks = Zero /\ Positive(marketing_data.rows[i].spend)
          /\ marketing_data.rows[i].cpc = Zero
    /\ \E i \in 1..Len(business_data.rows) : business_data.rows[i].aov # Zero

\* C2: every ratio of calculate_channel_metrics and calculate_campaign_metrics
\* (ctr, cpc, roas, avg_daily_spend) is 0 when its group's denominator is
\* non-positive, and is never NaN or infinite.
GroupRatiosGuarded(m) ==
    /\ NonPositive(m.impressions) => m.ctr = Zero
    /\ NonPositive(m.clicks) => m.cpc = Zero
    /\ NonPositive(m.spend) => m.roas = Zero
    /\ IsFinite(m.ctr) /\ IsFinite(m.cpc) /\ IsFinite(m.roas)
C2_GroupRatiosGuarded ==
    /\ "channel_metrics" \in DOMAIN result =>
          \A c \in DOMAIN result.channel_metrics :
             /\ GroupRatiosGuarded(result.channel_metrics[c])
             /\ NonPositive(result.channel_metrics[c].active_days) =>
                   result.channel_metrics[c].avg_daily_spend = Zero
             /\ IsFinite(result.channel_metrics[c].avg_daily_spend)
    /\ "campaign_metrics" \in DOMAIN result =>
          \A k \in DOMAIN result.campaign_metrics :
             GroupRatiosGuarded(result.campaign_metrics[k])

\* C3: every ratio returned by calculate_business_kpis equals
\* numerator/denominator when the denominator total is > 0 and 0 when it is
\* non-positive.
C3_BusinessKpisGuarded ==
    "business_kpis" \in DOMAIN result =>
       LET k == result.business_kpis
       IN /\ QuotientOrZero(k.avg_aov, k.total_revenue, k.total_orders)
          /\ PercentOrZero(k.avg_gross_margin, k.total_gross_profit, k.total_revenue)
          /\ QuotientOrZero(k.marketing_efficiency, k.total_revenue,
                            k.total_marketing_spend)
          /\ QuotientOrZero(k.customer_acquisition_cost, k.total_marketing_spend,
                            k.total_new_customers)
          /\ QuotientOrZero(k.overall_roas,
                            Num(IntSum(marketing_data.rows, "attributed_revenue",
                                       1..Len(marketing_data.rows))),
                            k.total_marketing_spend)

\* C4: in the rendered dashboard every displayed aggregate ratio is 0 when its
\* denominator is non-positive and is never undefined: the per-day averages,
\* overall ROAS, CAC, the per-channel ROAS and the campaign table's CTR, CPC and
\* ROAS.
C4_DisplayedRatiosGuarded ==
    Rendered =>
       /\ Len(view.filtered_combined) = 0 =>
             view.revenue_per_day = Zero /\ view.spend_per_day = Zero
       /\ IsFinite(view.revenue_per_day) /\ IsFinite(view.spend_per_day)
       /\ NonPositive(view.total_spend) => view.overall_roas = Zero
       /\ NonPositive(view.total_customers) => view.cac = Zero
       /\ IsFinite(view.overall_roas) /\ IsFinite(view.cac)
       /\ \A c \in DOMAIN view.channel_metrics :
             /\ NonPositive(view.channel_metrics[c].spend) =>
                   view.channel_metrics[c].roas = Zero
             /\ IsFinite(view.channel_metrics[c].roas)
       /\ \A k \in DOMAIN view.campaign_summary :
             LET t == view.campaign_summary[k]
             IN /\ NonPositive(t.impressions) => t.CTR = Zero
                /\ NonPositive(t.clicks) => t.CPC = Zero
                /\ NonPositive(t.spend) => t.ROAS = Zero
                /\ IsFinite(t.CTR) /\ IsFinite(t.CPC) /\ IsFinite(t.ROAS)

\* the marketing sums of a daily or combined row are the totals of the
\* marketing rows of its date
DailySums(r, marketing) ==
    /\ r.impressions = Num(IntSum(marketing, "impressions", OnDate(marketing, r.date)))
    /\ r.clicks = Num(IntSum(marketing, "clicks", OnDate(marketing, r.date)))
    /\ r.spend = Num(IntSum(marketing, "spend", OnDate(marketing, r.date)))
    /\ r.attributed_revenue =
          Num(IntSum(marketing, "attributed_revenue", OnDate(marketing, r.date)))

\* C5: the date aggregation returns exactly one row per distinct date of the
\* marketing data, and that row's impressions, clicks, spend and
\* attributed_revenue are the sums over all marketing rows of that date.
C5_DateAggregation ==
    /\ "daily_marketing" \in DOMAIN result =>
          LET daily == result.daily_marketing
          IN /\ DatesIn(daily) = DatesIn(marketing_data.rows)
             /\ Len(daily) = Cardinality(DatesIn(marketing_data.rows))
             /\ \A k \in 1..Len(daily) : DailySums(daily[k], marketing_data.rows)
    /\ ~combined_data.isNone =>
          \A i \in 1..Len(combined_data.rows) :
             DailySums(combined_data.rows[i], marketing_data.rows)
    /\ ~combined_df.isNone =>
          \A i \in 1..Len(combined_df.rows) :
             DailySums(combined_df.rows[i], marketing_df.rows)

\* the aggregated frame has a date on which two channels reported, and spend
\* was summed over both
C5_Witness ==
    /\ "daily_marketing" \in DOMAIN result
    /\ \E k \in 1..Len(result.daily_marketing) :
          LET on == OnDate(marketing_data.rows, result.daily_marketing[k].date)
          IN /\ \E i, j \in on : marketing_data.rows[i].channel # marketing_data.rows[j].channel
             /\ \A i \in on : Positive(marketing_data.rows[i].spend)
             /\ result.daily_marketing[k].spend = Num(1 + MaxVal)

BusinessCols ==
    {"date", "orders", "new_customers", "total_revenue", "gross_profit", "aov",
     "gross_margin"}

LeftJoin(combined, business) ==
    /\ Len(combined) = Len(business)
    /\ \A i \in 1..Len(combined) : \A c \in BusinessCols : combined[i][c] = business[i][c]

\* C6: the combined dataset is a left join of the business data with the
\* date-aggregated marketing data on date: exactly one row per business row, in
\* the same order and with the business fields unchanged, and a date that
\* occurs only in the marketing data never appears.
C6_LeftJoin ==
    /\ ~combined_data.isNone =>
          /\ LeftJoin(combined_data.rows, business_data.rows)
          /\ DatesIn(combined_data.rows) \subseteq DatesIn(business_data.rows)
    /\ ~combined_df.isNone =>
          /\ LeftJoin(combined_df.rows, business_df.rows)
          /\ DatesIn(combined_df.rows) \subseteq DatesIn(business_df.rows)

NoActivity(r) ==
    /\ r.impressions = Zero /\ r.clicks = Zero /\ r.spend = Zero
    /\ r.attributed_revenue = Zero
    /\ r.ctr = Zero /\ r.cpc = Zero /\ r.roas = Zero
    /\ r.marketing_efficiency = Zero /\ r.cpa = Zero

\* C7: for every business date that has no marketing row, the combined record
\* has impressions, clicks, spend, attributed_revenue, ctr, cpc and roas equal
\* to 0, and marketing_efficiency = 0 and cpa = 0.
C7_GapsFillZero ==
    /\ ~combined_data.isNone =>
          \A i \in 1..Len(combined_data.rows) :
             combined_data.rows[i].date \notin DatesIn(marketing_data.rows) =>
                NoActivity(combined_data.rows[i])
    /\ ~combined_df.isNone =>
          \A i \in 1..Len(combined_df.rows) :
             combined_df.rows[i].date \notin DatesIn(marketing_df.rows) =>
                NoActivity(combined_df.rows[i])

\* a combined frame with a business date without marketing rows next to one
\* with marketing rows
C7_Witness ==
    /\ ~combined_data.isNone
    /\ \E i, j \in 1..Len(combined_data.rows) :
          /\ combined_data.rows[i].date \notin DatesIn(marketing_data.rows)
          /\ combined_data.rows[j].date \in DatesIn(marketing_data.rows)
          /\ Positive(combined_data.rows[i].total_revenue)
          /\ Positive(combined_data.rows[i].new_customers)

JointMetricsOf(r, marketing) ==
    LET spend == Num(IntSum(marketing, "spend", OnDate(marketing, r.date)))
    IN /\ QuotientOrZero(r.marketing_efficiency, r.total_revenue, spend)
       /\ QuotientOrZero(r.cpa, spend, r.new_customers)

\* C8: every combined record has marketing_efficiency = total_revenue/spend if
\* the day's summed spend > 0 else 0, and cpa = spend/new_customers if
\* new_customers > 0 else 0, spend being the sum over all channels and
\* campaigns of that date.
C8_JointMetrics ==
    /\ ~combined_data.isNone =>
          \A i \in 1..Len(combined_data.rows) :
             JointMetricsOf(combined_data.rows[i], marketing_data.rows)
    /\ ~combined_df.isNone =>
          \A i \in 1..Len(combined_df.rows) :
             JointMetricsOf(combined_df.rows[i], marketing_df.rows)

\* a combined record whose spend is summed over two marketing rows of its date
\* and whose two joint metrics are both proper quotients
C8_Witness ==
    /\ ~combined_data.isNone
    /\ \E i \in 1..Len(combined_data.rows) :
          /\ Cardinality(OnDate(marketing_data.rows, combined_data.rows[i].date)) = 2
          /\ combined_data.rows[i].spend = Num(1 + MaxVal)
          /\ combined_data.rows[i].marketing_efficiency = Frac(1, 2)
          /\ combined_data.rows[i].cpa = Num(2)

\* the total of a column over the rows of a date, taken channel by channel
PerChannelThenDate(marketing, col, d) ==
    IntSum(marketing, col, OnDateOf(marketing, d, Channels[1]))
    + IntSum(marketing, col, OnDateOf(marketing, d, Channels[2]))
    + IntSum(marketing, col, OnDateOf(marketing, d, Channels[3]))

DailyRatiosOfSums(r, marketing) ==
    LET impressions == Num(PerChannelThenDate(marketing, "impressions", r.date))
        clicks == Num(PerChannelThenDate(marketing, "clicks", r.date))
        spend == Num(PerChannelThenDate(marketing, "spend", r.date))
        attributed_revenue ==
            Num(PerChannelThenDate(marketing, "attributed_revenue", r.date))
    IN /\ PercentOrZero(r.ctr, clicks, impressions)
       /\ QuotientOrZero(r.cpc, spend, clicks)
       /\ QuotientOrZero(r.roas, attributed_revenue, spend)

\* C9: the daily ctr, cpc and roas of the aggregated and combined data are the
\* zero-guarded ratios of the daily sums, whichever way the rows are grouped
\* before they are summed (here per channel, then per date).
C9_DailyRatiosOfSums ==
    /\ "daily_marketing" \in DOMAIN result =>
          \A k \in 1..Len(result.daily_marketing) :
             DailyRatiosOfSums(result.daily_marketing[k], marketing_data.rows)
    /\ ~combined_data.isNone =>
          \A i \in 1..Len(combined_data.rows) :
             DailyRatiosOfSums(combined_data.rows[i], marketing_data.rows)
    /\ ~combined_df.isNone =>
          \A i \in 1..Len(combined_df.rows) :
             DailyRatiosOfSums(combined_df.rows[i], marketing_df.rows)

\* an aggregated date whose ctr differs from the mean of its rows' ctr
C9_Witness ==
    /\ "daily_marketing" \in DOMAIN result
    /\ \E k \in 1..Len(result.daily_marketing) :
          LET g == RowsWhere(marketing_data.rows, "date", result.daily_marketing[k].date)
          IN /\ Len(g) = 2
             /\ g[1].channel # g[2].channel
             /\ result.daily_marketing[k].ctr # SeriesMean(Col(g, "ctr"))

\* C10: the ctr, cpc and roas get_channel_summary reports per channel equal the
\* zero-guarded ratio of the channel's summed numerator to its summed
\* denominator, the ratios calculate_channel_metrics reports for the same data.
C10_ChannelSummaryRatios ==
    "channel_summary" \in DOMAIN result =>
       \A c \in DOMAIN result.channel_summary :
          LET s == result.channel_summary[c]
              m == calculate_channel_metrics(marketing_data.rows)[c]
          IN /\ s.ctr = Round2(GuardedPct(s.clicks_sum, s.impressions_sum))
             /\ s.cpc = Round2(GuardedRatio(s.spend_sum, s.clicks_sum))
             /\ s.roas = Round2(GuardedRatio(s.attributed_revenue_sum, s.spend_sum))
             /\ s.ctr = m.ctr /\ s.cpc = m.cpc /\ s.roas = m.roas

\* the day a date cell names, parsed or not
DayOf(d) == IF "iso" \in DOMAIN d THEN d.iso ELSE d.ts

\* the rows of the three channel files in the order Facebook, Google, TikTok,
\* each paired with the name of its feed
FilesRows ==
    LET Facebook(t) == t[1] = "Facebook"
        Google(t) == t[1] = "Google"
        TikTok(t) == t[1] = "TikTok"
    IN SelectSeq(data.files.marketing, Facebook)
       \o SelectSeq(data.files.marketing, Google)
       \o SelectSeq(data.files.marketing, TikTok)

FeedSize(c) ==
    Cardinality({i \in 1..Len(data.files.marketing) : data.files.marketing[i][1] = c})

TaggedWithSource(rows) ==
    /\ Len(rows) = FeedSize("Facebook") + FeedSize("Google") + FeedSize("TikTok")
    /\ \A i \in 1..Len(rows) :
          /\ rows[i].channel = FilesRows[i][1]
          /\ DayOf(rows[i].date) = DayOf(FilesRows[i][2].date)
          /\ rows[i].clicks = FilesRows[i][2].clicks \/ "ctr" \in DOMAIN rows[i]
    /\ \A c \in ChannelSet :
          Cardinality({i \in 1..Len(rows) : rows[i].channel = c}) = FeedSize(c)

\* C11: after loading, every row of the combined marketing data has channel
\* equal to the name of the feed it was read from, the row count is the sum of
\* the three feeds' row counts, and the business feed is kept separate.
C11_IngestionTagsFeeds ==
    /\ ~marketing_data.isNone => TaggedWithSource(marketing_data.rows)
    /\ ~marketing_df.isNone => TaggedWithSource(marketing_df.rows)
    /\ ~business_data.isNone =>
          /\ Len(business_data.rows) = Len(data.files.business)
          /\ "channel" \notin business_data.columns
          /\ \A i \in 1..Len(business_data.rows) : "channel" \notin DOMAIN business_data.rows[i]
    /\ ~business_df.isNone =>
          /\ Len(business_df.rows) = Len(data.files.business)
          /\ "channel" \notin business_df.columns

\* a processor that has just loaded two rows read from two different feeds
C11_Witness ==
    /\ result = Returned("True")
    /\ Len(marketing_data.rows) = 2
    /\ marketing_data.rows[1].channel = "Facebook"
    /\ marketing_data.rows[2].channel = "TikTok"
    /\ Len(business_data.rows) = 1

RequiredColumns ==
    {"date", "channel", "campaign", "impressions", "clicks", "spend",
     "attributed_revenue"}

\* C12: a feed whose headers are the vendor names yields, after ingestion by
\* either path, the canonical columns, so the combined marketing data has all
\* required columns and the later cleaning and derivation steps succeed.
C12_VendorColumnsRenamed ==
    (data.files.header = "vendor" /\ data.missing = {}) =>
       /\ ~marketing_data.isNone => RequiredColumns \subseteq marketing_data.columns
       /\ ~marketing_df.isNone => RequiredColumns \subseteq marketing_df.columns
       /\ "raised" \notin DOMAIN result

IsNumber(a) == a[2] > 0

\* the cell of a cleaned numeric column, given the cell of the file
CoercedFrom(cell, raw) ==
    /\ IsNumber(cell)
    /\ IF IsNumber(raw) THEN cell = raw ELSE cell = Num(0)

\* C13: after clean_marketing_data and clean_business_data every numeric
\* column holds a number in every row, each missing or unparseable value being
\* replaced by 0, every missing campaign is 'Unknown', and no row is added or
\* removed.
C13_CleaningCoerces ==
    /\ "ctr" \in marketing_data.columns =>
          /\ Len(marketing_data.rows) = Len(data.files.marketing)
          /\ \A i \in 1..Len(marketing_data.rows) :
                /\ \A c \in {"impressions", "clicks", "spend", "attributed_revenue"} :
                      CoercedFrom(marketing_data.rows[i][c], FilesRows[i][2][c])
                /\ marketing_data.rows[i].campaign =
                      IF FilesRows[i][2].campaign = Blank THEN "Unknown"
                      ELSE FilesRows[i][2].campaign
    /\ "aov" \in business_data.columns =>
          /\ Len(business_data.rows) = Len(data.files.business)
          /\ \A i \in 1..Len(business_data.rows) :
                \A c \in {"orders", "new_customers", "total_revenue", "gross_profit"} :
                   CoercedFrom(business_data.rows[i][c], data.files.business[i][c])

\* cleaned marketing data read from a file with a text cell in a numeric column
C13_Witness ==
    /\ "ctr" \in marketing_data.columns
    /\ \E i \in 1..Len(marketing_data.rows) :
          /\ FilesRows[i][2].spend = Text
          /\ marketing_data.rows[i].spend = Num(0)

\* C14: when one of the four input files is missing, load_real_data returns
\* (None, None) and main halts before anything is rendered; process_data is
\* never called.
C14_MissingFileHalts ==
    (run = "dashboard" /\ data.missing # {}) =>
       /\ marketing_df.isNone /\ business_df.isNone /\ combined_df.isNone
       /\ view = [stopped |-> TRUE]

\* the dashboard stopped because business.csv is missing
C14_Witness ==
    /\ run = "dashboard"
    /\ data.missing = {"business.csv"}
    /\ "stopped" \in DOMAIN view

\* C15: process_all runs load_data, clean_marketing_data, clean_business_data,
\* combine_data in this order; if load_data fails it returns False without
\* running any later step, and when it returns True all three frames are set.
C15_ProcessAllOrder ==
    "called" \in DOMAIN result =>
       /\ \E n \in 1..4 :
             result.called =
                SubSeq(<<"load_data", "clean_marketing_data", "clean_business_data",
                         "combine_data">>, 1, n)
       /\ data.missing # {} =>
             /\ result = [ret |-> "False", called |-> <<"load_data">>]
             /\ combined_data.isNone
             /\ "ctr" \notin marketing_data.columns
             /\ "aov" \notin business_data.columns
       /\ ("ret" \in DOMAIN result /\ data.missing = {}) =>
             /\ result.ret = "True"
             /\ Len(result.called) = 4
             /\ ~marketing_data.isNone /\ ~business_data.isNone /\ ~combined_data.isNone
             /\ "ctr" \in marketing_data.columns /\ "aov" \in business_data.columns

\* process_all has returned True on files with marketing and business rows
C15_Witness ==
    /\ "called" \in DOMAIN result
    /\ "ret" \in DOMAIN result
    /\ data.missing = {}
    /\ Len(combined_data.rows) = 1
    /\ Len(marketing_data.rows) = 2

\* the rows of a frame at the positions in S, in the frame's order
RECURSIVE Pick(_, _, _)
Pick(rows, S, i) ==
    IF i > Len(rows) THEN <<>>
    ELSE (IF i \in S THEN <<rows[i]>> ELSE <<>>) \o Pick(rows, S, i + 1)

InRange(r, date_range) ==
    Len(date_range) = 2 => (date_range[1] <= r.date.ts /\ r.date.ts <= date_range[2])

\* the filtered frames a selection must show
Selected(rows, date_range, selected_channel, selected_campaign) ==
    Pick(rows,
         {i \in 1..Len(rows) :
             /\ InRange(rows[i], date_range)
             /\ selected_channel # "All" => rows[i].channel = selected_channel
             /\ selected_campaign # "All" => rows[i].campaign = selected_campaign},
         1)
SelectedDays(rows, date_range) ==
    Pick(rows, {i \in 1..Len(rows) : InRange(rows[i], date_range)}, 1)

\* C16: filtering never mutates the loaded datasets, and the view shown after
\* a selection depends only on the full datasets and the current selection, so
\* re-selecting an earlier filter reproduces the earlier view.
C16_FilteringKeepsDatasets ==
    /\ [](Rendered =>
             view = Render(view.date_range, view.selected_channel, view.selected_campaign))
    /\ [][(~combined_df.isNone /\ view' # view) =>
             /\ marketing_df' = marketing_df
             /\ business_df' = business_df
             /\ combined_df' = combined_df]_vars

\* a view that shows a proper, non-empty part of the marketing data after the
\* channel and the date range were both changed
C16_Witness ==
    /\ Rendered
    /\ view.selected_channel # "All"
    /\ view.date_range # <<MinDay(combined_df.rows), MaxDay(combined_df.rows)>>
    /\ Len(view.filtered_marketing) > 0
    /\ Len(view.filtered_marketing) < Len(marketing_df.rows)

\* C17: the filtered marketing data is exactly the marketing rows with
\* start <= date <= end, the selected channel unless 'All' and the selected
\* campaign unless 'All'; the filtered combined data is exactly the combined
\* rows with start <= date <= end; a date selection without two endpoints
\* filters nothing.
C17_FilterExact ==
    Rendered =>
       /\ view.filtered_marketing =
             Selected(marketing_df.rows, view.date_range, view.selected_channel,
                      view.selected_campaign)
       /\ view.filtered_combined = SelectedDays(combined_df.rows, view.date_range)

\* a range that keeps a row dated on its last day and drops a later row
C17_Witness ==
    /\ Rendered
    /\ Len(view.date_range) = 2
    /\ \E i \in 1..Len(view.filtered_marketing) :
          view.filtered_marketing[i].date.ts = view.date_range[2]
    /\ \E i \in 1..Len(marketing_df.rows) :
          marketing_df.rows[i].date.ts > view.date_range[2]

NotLoaded(what) ==
    Raised("ValueError: " \o what \o " data not loaded. Call load_data() first.")

\* C18: clean_marketing_data and clean_business_data, called while the data
\* they clean is None, raise ValueError telling the caller to call load_data()
\* first and leave the processor's state unchanged.
C18_CleanBeforeLoadRaises ==
    [][/\ (clean_marketing_data /\ marketing_data.isNone) =>
             result' = NotLoaded("Marketing")
       /\ (clean_business_data /\ business_data.isNone) =>
             result' = NotLoaded("Business")
       /\ result' \in {NotLoaded("Marketing"), NotLoaded("Business")} =>
             UNCHANGED <<marketing_data, business_data, combined_data>>]_vars

\* clean_marketing_data has raised on a processor that has loaded nothing
C18_Witness ==
    /\ result = NotLoaded("Marketing")
    /\ marketing_data.isNone
    /\ business_data.isNone

\* C19: if load_data returns False the processor is left as it was before the
\* call: marketing_data and business_data are both still None.
C19_FailedLoadLeavesNone ==
    (result = Returned("False") \/ result = [ret |-> "False", called |-> <<"load_data">>]) =>
       marketing_data.isNone /\ business_data.isNone

\* C20: for every selection the sidebar allows, main renders every section
\* through to the footer without raising.
C20_RendersWithoutRaising ==
    Rendered => view.raised = "None"

\* C21: under one filter selection the Marketing Spend total of the Executive
\* Summary equals the sum of the daily spend values plotted in the 'Daily
\* Marketing Spend' chart.
C21_SpendTotalMatchesTrend ==
    Rendered => view.total_spend = SeriesSum(view.spend_trend)

\* the dates on which a channel has at least one row
ActiveDates(rows, c) ==
    {rows[i].date : i \in {j \in 1..Len(rows) : rows[j].channel = c}}

\* C22: in calculate_channel_metrics, active_days of a channel is the number
\* of distinct dates on which the channel has a row, and avg_daily_spend is
\* the channel's total spend divided by that number, rounded to two decimals.
C22_ActiveDaysDistinct ==
    "channel_metrics" \in DOMAIN result =>
       \A c \in DOMAIN result.channel_metrics :
          LET m == result.channel_metrics[c]
              days == Num(Cardinality(ActiveDates(marketing_data.rows, c)))
          IN /\ m.active_days = days
             /\ m.avg_daily_spend = RoundedRatio(m.spend, days)

\* C27: an exception raised by the Marketing Funnel Analysis section is
\* caught: the page shows the 'temporarily unavailable' message and renders
\* every later section; the funnel chart and the funnel insights are drawn
\* only when total impressions and total clicks are both positive, and the
\* 'insufficient data' notice is shown otherwise.
C27_FunnelErrorsCaught ==
    Rendered =>
       LET body == FunnelBody(view.filtered_marketing, view.filtered_combined)
           valid == /\ FGt0(SeriesSum(Col(view.filtered_marketing, "impressions")))
                    /\ FGt0(SeriesSum(Col(view.filtered_marketing, "clicks")))
       IN /\ body # "None" =>
               /\ view.funnel.unavailable
               /\ view.raised = "None"
               /\ view.completed = Sections
          /\ body = "None" => ~view.funnel.unavailable
          /\ view.funnel.chart = valid
          /\ view.funnel.insights = valid
          /\ view.funnel.insufficient = ~valid

\* the funnel section raised, and the page went on to its footer
C27_Witness ==
    /\ Rendered
    /\ FunnelBody(view.filtered_marketing, view.filtered_combined) = "KeyError"
    /\ view.funnel.chart
    /\ view.completed[Len(view.completed)] = "Footer"

WindowTotal(rows, col, i) ==
    SeriesSum([k \in 1..7 |-> rows[i - 7 + k][col]])

\* C23: calculate_time_series_metrics('daily') returns one row per combined
\* row, in the same order, and leaves combined_data unmodified; from the
\* seventh row on revenue_7d_avg and spend_7d_avg are the means of
\* total_revenue and spend over the seven rows ending there and roas_7d_avg is
\* the sum of attributed_revenue over the sum of spend of those rows; for the
\* first six rows the three values are undefined.
C23_DailyRolling ==
    /\ []((("time_series" \in DOMAIN result) /\ result.period = "daily") =>
            LET ts == result.time_series
                rows == combined_data.rows
            IN /\ Len(ts) = Len(rows)
               /\ \A i \in 1..Len(rows) :
                     /\ [c \in DOMAIN rows[i] |-> ts[i][c]] = rows[i]
                     /\ i >= 7 =>
                           /\ FMul(ts[i].revenue_7d_avg, Num(7))
                                 = WindowTotal(rows, "total_revenue", i)
                           /\ FMul(ts[i].spend_7d_avg, Num(7))
                                 = WindowTotal(rows, "spend", i)
                           /\ ts[i].roas_7d_avg
                                 = FDiv(WindowTotal(rows, "attributed_revenue", i),
                                        WindowTotal(rows, "spend", i))
                     /\ i < 7 =>
                           /\ ts[i].revenue_7d_avg = NaN
                           /\ ts[i].spend_7d_avg = NaN
                           /\ ts[i].roas_7d_avg = NaN)
    /\ [][("time_series" \in DOMAIN result') => combined_data' = combined_data]_vars

\* a daily series whose seventh and eighth rows have different rolling means
C23_Witness ==
    /\ "time_series" \in DOMAIN result
    /\ result.period = "daily"
    /\ Len(result.time_series) >= 8
    /\ result.time_series[6].revenue_7d_avg = NaN
    /\ result.time_series[7].revenue_7d_avg # NaN
    /\ result.time_series[7].revenue_7d_avg # result.time_series[8].revenue_7d_avg

\* the calendar week (Monday to Sunday) of a timestamp
CalendarWeek(d) == (d.ts - 1) \div 7

\* C24: the weekly aggregation has one row per calendar week: rows of different
\* calendar weeks, the same ISO week number of different years included, are
\* never summed into one weekly row.
C24_WeeklyPerCalendarWeek ==
    (("time_series" \in DOMAIN result) /\ result.period = "weekly") =>
       LET rows == combined_data.rows
           weeks == {CalendarWeek(rows[i].date) : i \in 1..Len(rows)}
           InWeek(w) == LET Test(r) == CalendarWeek(r.date) = w
                        IN SelectSeq(rows, Test)
       IN /\ Len(result.time_series) = Cardinality(weeks)
          /\ \A k \in 1..Len(result.time_series) :
                \E w \in weeks :
                   \A c \in WeeklyCols :
                      result.time_series[k][c] = SeriesSum(Col(InWeek(w), c))

\* the ROAS of a channel, from the rows of the channel
RoasOf(rows, c) ==
    LET g == RowsWhere(rows, "channel", c)
    IN Round2(FDiv(SeriesSum(Col(g, "attributed_revenue")), SeriesSum(Col(g, "spend"))))

\* C25: generate_insights returns four insights, channel_performance,
\* efficiency, trend, customer_acquisition in this order; the first names the
\* channel with the maximum ROAS; the trend is titled 'Increasing' exactly
\* when the mean total_revenue of the last 30 combined rows is greater than
\* the mean of the first 30, and 'Decreasing' otherwise.
C25_FourInsights ==
    /\ result # Raised("ValueError")
    /\ ("insights" \in DOMAIN result) =>
          LET ins == result.insights
              rows == marketing_data.rows
              n == Len(combined_data.rows)
              first == IF n < 30 THEN n ELSE 30
              early == SeriesSum([k \in 1..first |-> combined_data.rows[k].total_revenue])
              recent == SeriesSum([k \in 1..first |->
                                      combined_data.rows[n - first + k].total_revenue])
          IN /\ [i \in 1..Len(ins) |-> ins[i].type]
                   = <<"channel_performance", "efficiency", "trend",
                       "customer_acquisition">>
             /\ \E c \in ChannelsOf(rows) :
                   /\ ins[1].title = c \o " is the Top Performing Channel"
                   /\ \A d \in ChannelsOf(rows) : ~FGt(RoasOf(rows, d), RoasOf(rows, c))
             /\ ins[3].title = IF FGt(recent, early)
                               THEN "Revenue Trend is Increasing"
                               ELSE "Revenue Trend is Decreasing"

\* C28: test_setup.main runs the three checks whatever the earlier ones
\* returned, and reports 'All tests passed! Your dashboard is ready to run.'
\* exactly when the three returned True; test_data_directory returns True
\* whenever the data directory exists, whichever expected files are absent,
\* and False only when the directory is missing.
C28_SetupChecks ==
    run = "test_setup" =>
       /\ Len(result.returned) >= 2 => (result.returned[2] <=> data.data_dir)
       /\ result.report # "None" =>
             /\ Len(result.returned) = 3
             /\ result.report \in {AllPassed, SomeFailed}
             /\ result.report = AllPassed <=>
                   (result.returned[1] /\ result.returned[2] /\ result.returned[3])

\* a run that went on after the imports failed, over an empty data directory
C28_Witness ==
    /\ run = "test_setup"
    /\ result.report = SomeFailed
    /\ result.returned = <<FALSE, TRUE, TRUE>>
    /\ data.data_files = {}

====
